---- MODULE Spec2Model ----
(***************************************************************************)
(* The scene-to-video composition pipeline of the dashboard: the           *)
(* VideoComposer component (status / error / videoUrl state, the           *)
(* generateVideo callback, the auto-generate effect, the MediaRecorder     *)
(* callbacks and the object-URL registry) together with the part of        *)
(* AgentDashboard that mounts it and hands it new scene lists.             *)
(*                                                                         *)
(* React is modelled at the granularity of its scheduler: one action per   *)
(* event handler, timer callback, recorder event or passive-effect flush.  *)
(* State updates made inside one callback are batched into one commit.     *)
(* A commit whose dependencies changed schedules the auto-generate effect  *)
(* (effectPending); React flushes a pending passive effect before it       *)
(* processes any later update, so every other action waits for it.         *)
(***************************************************************************)
EXTENDS Naturals, Sequences, FiniteSets

\* ---------------------------------------------------------------- bounds
MaxRuns == 2
MaxScenes == 2
MaxChunks == 2
TickMs == 1000
MaxNarration == 5
MaxTextWidth == 4
MaxRenders == 2
MaxIndex == 9
MaxPosts == 2
MaxCaptions == 2
MaxPublished == 3
MaxStamps == 2

\* ------------------------------------------------------------- constants
Null == "null"

\* videoUrl is null (NoUrl) or an object URL; object URLs are numbered from 1
\* in the order URL.createObjectURL mints them.
NoUrl == 0

ErrMediaRecorder == "Browser does not support MediaRecorder API."
ErrCodec == "No compatible video codec available in this browser."
ErrContext == "Canvas context unavailable"
ErrEncoder == "encoder error message"
ErrGeneric == "Failed to render video"

candidates == <<"video/webm;codecs=vp9", "video/webm;codecs=vp8", "video/webm">>

PaletteCount == 5
SettleMs == 200
MsPerSecond == 1000

colors == << <<"#0ea5e9", "#1e3a8a">>, <<"#22d3ee", "#0f172a">>, <<"#a855f7", "#312e81">>,
            <<"#f97316", "#7c2d12">>, <<"#38bdf8", "#1e293b">> >>

canvasWidth == 720
canvasHeight == 1280
padding == 48

VARIABLES
    runtime,        \* the host: MediaRecorder present, supported types, 2D context
    autoGenerate,   \* VideoComposer prop
    loading,        \* AgentDashboard state
    dashVideoUrl,   \* AgentDashboard state `videoUrl` (set through onVideoReady)
    canvasRef,      \* canvasRef.current: Null until VideoComposer is mounted
    scenes,         \* VideoComposer prop (result.scenes)
    status,         \* VideoComposer state
    error,          \* VideoComposer state
    videoUrl,       \* VideoComposer state
    effectPending,  \* the auto-generate effect is scheduled and not yet flushed
    runs,           \* one record per generateVideo call that created a recorder
    blobs,          \* object-URL registry: blobs[u] is the Blob behind URL u
    liveUrls,       \* minted object URLs not yet revoked
    surface,        \* what the canvas shows
    lastOutcome,    \* the exit path taken by the latest generateVideo step
    timed,          \* the behaviour tracks elapsed time (timers fire when due)
    unmounted,      \* the dashboard, and VideoComposer with it, was unmounted
    narration,      \* drawScene's text layout: scene.narration, a string of characters
    textWidth,      \* drawScene's text layout: the width a line may take
    wordIndex,      \* drawScene's text layout: words.forEach iterations done
    currentLine,    \* drawScene's text layout: the line being built
    lines,          \* drawScene's text layout: the lines closed so far
    ctx,            \* the 2D context's fillStyle, font and textAlign
    canvas,         \* the canvas bitmap: the paint operations that make it up
    rendered,       \* the scene and palette of the latest drawScene call
    request,        \* api/agent POST: the request body as request.json() finds it
    response,       \* api/agent POST: the response returned (status 0: none yet)
    agentCalls,     \* api/agent POST: the payloads runAgent was called with
    plannerMounted, \* SocialPlanner is mounted
    scheduled,      \* SocialPlanner state
    published,      \* SocialPlanner state
    storage         \* localStorage item "agentic-published"

vars == <<runtime, autoGenerate, loading, dashVideoUrl, canvasRef,
          scenes, status, error, videoUrl, effectPending, runs, blobs,
          liveUrls, surface, lastOutcome, timed, unmounted,
          narration, textWidth, wordIndex, currentLine, lines,
          ctx, canvas, rendered, request, response, agentCalls,
          plannerMounted, scheduled, published, storage>>

layoutVars == <<narration, textWidth, wordIndex, currentLine, lines>>

renderVars == <<ctx, canvas, rendered>>
apiVars == <<request, response, agentCalls>>
plannerVars == <<plannerMounted, scheduled, published, storage>>
sideVars == <<apiVars, plannerVars>>

\* What no handler, timer callback or recorder event of the component writes.
envVars == <<runtime, autoGenerate, timed, unmounted, layoutVars, renderVars, sideVars>>
composerVars == <<status, error, videoUrl, runs, liveUrls, surface, lastOutcome>>

\* ---------------------------------------------------------------- helpers
CandidateSet == {candidates[i] : i \in 1..Len(candidates)}

\* ScenePlan lists the backend may return: scene ids 1..n in playback order.
SceneLists == {[i \in 1..n |-> i] : n \in 0..MaxScenes}

Blank == [run |-> 0, scene |-> 0, palette |-> 0]

\* A scan of the candidate list from its end: the last supported entry.
LastSupported(supported) ==
    IF \E i \in 1..Len(candidates) : candidates[i] \in supported
    THEN candidates[CHOOSE i \in 1..Len(candidates) :
                       /\ candidates[i] \in supported
                       /\ \A j \in (i + 1)..Len(candidates) : candidates[j] \notin supported]
    ELSE Null

\* Array.prototype.find over the candidate list, ?? null.
FirstSupported(supported) ==
    IF \E i \in 1..Len(candidates) : candidates[i] \in supported
    THEN candidates[CHOOSE i \in 1..Len(candidates) :
                       /\ candidates[i] \in supported
                       /\ \A j \in 1..(i - 1) : candidates[j] \notin supported]
    ELSE Null

supportedMimeType ==
    IF ~runtime.mediaRecorder THEN Null ELSE FirstSupported(runtime.supported)

\* A palette choice that stays on the last entry once the index passes it.
pickPaletteClamped(index) == IF index < PaletteCount THEN index ELSE PaletteCount - 1

pickPalette(index) == index % PaletteCount

\* drawScene overwrites the whole canvas with scene `index` (0-based) of run r.
drawScene(r, list, index) ==
    [run |-> r, scene |-> list[index + 1], palette |-> pickPalette(index)]

\* The reason string the catch block stores: err.message for an Error,
\* the fixed fallback for anything else (event.error may be undefined).
\* A catch block that stores no reason.
NoCatchReason(err) == Null

CatchReason(err) ==
    IF err = "ctx" THEN ErrContext
    ELSE IF err = "DOMException" THEN ErrEncoder
    ELSE ErrGeneric

\* The early returns with the codec check ahead of the MediaRecorder check.
PrecheckCodecFirst ==
    IF canvasRef = Null THEN "noCanvas"
    ELSE IF supportedMimeType = Null THEN "noCodec"
    ELSE IF ~runtime.mediaRecorder THEN "noMediaRecorder"
    ELSE "ok"

\* The early returns of generateVideo, in source order.
Precheck ==
    IF canvasRef = Null THEN "noCanvas"
    ELSE IF ~runtime.mediaRecorder THEN "noMediaRecorder"
    ELSE IF supportedMimeType = Null THEN "noCodec"
    ELSE "ok"

\* ScenePlan.durationSeconds of scene s: scene 1 lasts 1 s, scene 2 lasts 2 s.
durationSeconds(scene) == scene

\* The delay of the second wait of a loop iteration that passes the seconds on
\* as milliseconds.
HoldSecondsAsMs(scene) == durationSeconds(scene)

\* The delay of the second wait of a loop iteration.
HoldMs(scene) == durationSeconds(scene) * MsPerSecond

Min(a, b) == IF a < b THEN a ELSE b

\* One entry of a run's record of what its generateVideo call has done so far.
Ev(name, scene) == [ev |-> name, scene |-> scene]

\* wait(durationMs): setTimeout resolves no earlier than durationMs after the
\* call; an untimed behaviour lets it resolve at any moment.
TimerDue(run, durationMs) == ~timed \/ run.waited >= durationMs

\* ondataavailable that pushes every blob, empty ones included.
ondataavailableKeepsEmpty(chunks, data) == Append(chunks, data)

\* recorder.ondataavailable: empty blobs are dropped.
ondataavailable(chunks, data) ==
    IF data.size > 0 THEN Append(chunks, data) ELSE chunks

\* What event.error of a recorder error event may be.
RejectionValues == {"DOMException", "undefined"}

\* A run whose generateVideo call has returned: its locals are gone.
Finished ==
    [scenes |-> <<>>, index |-> 0, pc |-> "done", rec |-> "inactive",
     rejected |-> FALSE, chunks |-> <<>>, sent |-> <<>>, mime |-> Null,
     log |-> <<>>, waited |-> 0, sinceDraw |-> 0]

\* The await entered without recorder.stop() having been called.
StopAfterLastHoldForgotten(run) == [run EXCEPT !.pc = "awaitStop"]

\* recorder.stop() after the last hold, then `await recordingPromise`.
StopAfterLastHold(run) ==
    [run EXCEPT !.pc = "awaitStop", !.rec = "stopping",
                !.log = Append(@, Ev("stop", 0)), !.waited = 0, !.sinceDraw = 0]

\* One loop iteration up to its first await: scene `index` drawn, wait(200) set.
LoopIteration(run, index) ==
    [run EXCEPT !.index = index, !.pc = "settle",
                !.log = Append(@, Ev("draw", run.scenes[index + 1])),
                !.waited = 0, !.sinceDraw = 0]

\* A synchronous prefix that paints the first scene before recorder.start().
NewRunDrawsFirst(list, mime) ==
    [scenes |-> list, index |-> 0, pc |-> "settle", rec |-> "recording",
     rejected |-> FALSE, chunks |-> <<>>, sent |-> <<>>, mime |-> mime,
     log |-> <<Ev("draw", list[1]), Ev("start", 0)>>, waited |-> 0, sinceDraw |-> 0]

\* A run right after the synchronous prefix of generateVideo: recorder created
\* and started, first scene drawn, suspended in wait(200); with no scene the
\* loop body never runs and recorder.stop() has already been called.
NewRun(list, mime) ==
    LET base == [scenes |-> list, index |-> 0, pc |-> "settle", rec |-> "recording",
                 rejected |-> FALSE, chunks |-> <<>>, sent |-> <<>>, mime |-> mime,
                 log |-> <<Ev("start", 0)>>, waited |-> 0, sinceDraw |-> 0]
    IN IF Len(list) = 0 THEN StopAfterLastHold(base) ELSE LoopIteration(base, 0)

\* generateVideo up to its first await, with the state updates it batches.
generateVideo ==
    LET pre == Precheck IN
    IF pre = "noCanvas" THEN
        /\ lastOutcome' = "noCanvas"
        /\ UNCHANGED <<status, error, videoUrl, runs, liveUrls, surface>>
    ELSE IF pre = "noMediaRecorder" THEN
        /\ error' = ErrMediaRecorder
        /\ status' = "error"
        /\ lastOutcome' = "noMediaRecorder"
        /\ UNCHANGED <<videoUrl, runs, liveUrls, surface>>
    ELSE IF pre = "noCodec" THEN
        /\ error' = ErrCodec
        /\ status' = "error"
        /\ lastOutcome' = "noCodec"
        /\ UNCHANGED <<videoUrl, runs, liveUrls, surface>>
    ELSE
        /\ liveUrls' = liveUrls \ {videoUrl}
        /\ videoUrl' = NoUrl
        /\ IF ~runtime.ctx THEN
               /\ status' = "error"
               /\ error' = CatchReason("ctx")
               /\ lastOutcome' = "noContext"
               /\ UNCHANGED <<runs, surface>>
           ELSE
               /\ Len(runs) < MaxRuns
               /\ status' = "rendering"
               /\ error' = Null
               /\ runs' = Append(runs, NewRun(scenes, supportedMimeType))
               /\ surface' = IF Len(scenes) = 0 THEN Blank
                             ELSE drawScene(Len(runs) + 1, scenes, 0)
               /\ lastOutcome' = "started"

\* A continuation that mints the URL and sets status ready but never stores
\* the URL in videoUrl.
PublishWithoutSetVideoUrl(r) ==
    LET url == Len(blobs) + 1 IN
    /\ blobs' = Append(blobs, [chunks |-> runs[r].chunks, type |-> runs[r].mime, run |-> r])
    /\ liveUrls' = liveUrls \cup {url}
    /\ lastOutcome' = "published"
    /\ dashVideoUrl' = url
    /\ status' = "ready"
    /\ effectPending' = FALSE
    /\ UNCHANGED <<videoUrl, error, surface>>

\* The continuation of `await recordingPromise` when the promise resolved.
Publish(r) ==
    LET url == Len(blobs) + 1 IN
    /\ blobs' = Append(blobs, [chunks |-> runs[r].chunks, type |-> runs[r].mime, run |-> r])
    /\ liveUrls' = liveUrls \cup {url}
    /\ lastOutcome' = "published"
    /\ IF unmounted
       THEN UNCHANGED <<videoUrl, dashVideoUrl, status, effectPending>>
       ELSE /\ videoUrl' = url
            /\ dashVideoUrl' = url
            /\ status' = "ready"
            /\ effectPending' = TRUE
    /\ UNCHANGED <<error, surface>>

\* The catch block, entered from the awaited promise's rejection.
Fail(err) ==
    /\ IF unmounted
       THEN UNCHANGED <<status, error>>
       ELSE /\ status' = "error"
            /\ error' = CatchReason(err)
    /\ lastOutcome' = "encoderError"
    /\ UNCHANGED <<blobs, liveUrls, videoUrl, dashVideoUrl, effectPending, surface>>

\* ------------------------------------------------------------ text layout
\* A string is a sequence of characters: a narrow letter, a wide letter and
\* the space stand for the characters measureText tells apart.
Alphabet == {"a", "W", " "}

Narrations == UNION {[1..n -> Alphabet] : n \in 0..MaxNarration}

IsSpace(char) == char = " "

CharWidth(char) == IF char = "W" THEN 2 ELSE 1

\* ctx.measureText(text).width: the sum of the characters' advance widths.
RECURSIVE measureText(_)
measureText(text) ==
    IF text = <<>> THEN 0 ELSE CharWidth(Head(text)) + measureText(Tail(text))

\* text.split(/\s+/) from position i on: a run of whitespace ends the element
\* under construction, so leading or trailing whitespace yields an empty
\* first or last element and the empty string yields one empty element.
RECURSIVE SplitFrom(_, _, _, _)
SplitFrom(text, i, word, afterSpace) ==
    IF i > Len(text) THEN <<word>>
    ELSE IF IsSpace(text[i]) THEN
        IF afterSpace THEN SplitFrom(text, i + 1, word, TRUE)
        ELSE <<word>> \o SplitFrom(text, i + 1, <<>>, TRUE)
    ELSE SplitFrom(text, i + 1, Append(word, text[i]), FALSE)

split(text) == SplitFrom(text, 1, <<>>, FALSE)

\* String.prototype.trim.
RECURSIVE trimStart(_)
trimStart(text) ==
    IF text # <<>> /\ IsSpace(Head(text)) THEN trimStart(Tail(text)) ELSE text

RECURSIVE trimEnd(_)
trimEnd(text) ==
    IF text # <<>> /\ IsSpace(text[Len(text)])
    THEN trimEnd(SubSeq(text, 1, Len(text) - 1))
    ELSE text

trim(text) == trimEnd(trimStart(text))

\* A loop body that never closes a line.
PlaceWordNeverBreaks(line, closed, word, width) ==
    [lines |-> closed,
     currentLine |-> IF Len(line) = 0 THEN word ELSE line \o <<" ">> \o word]

\* A loop body that closes the line after adding the word that overflowed it.
PlaceWordBreaksAfter(line, closed, word, width) ==
    LET testLine == IF Len(line) = 0 THEN word ELSE line \o <<" ">> \o word
    IN IF measureText(testLine) > width
       THEN [lines |-> Append(closed, testLine), currentLine |-> <<>>]
       ELSE [lines |-> closed, currentLine |-> testLine]

\* The body of words.forEach: the word joins the current line unless the
\* joined line measures wider than `width`; then the current line is closed,
\* whatever it holds, and the word starts the next one.
PlaceWord(line, closed, word, width) ==
    LET testLine == IF Len(line) = 0 THEN word ELSE line \o <<" ">> \o word
    IN IF measureText(testLine) > width
       THEN [lines |-> Append(closed, line), currentLine |-> word]
       ELSE [lines |-> closed, currentLine |-> testLine]

\* A layout that forgets the line still open when the words run out.
PushLastNever(closed, line) == closed

\* if (currentLine.trim().length > 0) lines.push(currentLine).
PushLast(closed, line) ==
    IF Len(trim(line)) > 0 THEN Append(closed, line) ELSE closed

\* words.forEach over words[i..], then the statement after the loop.
RECURSIVE LayoutFrom(_, _, _, _, _)
LayoutFrom(words, i, line, closed, width) ==
    IF i > Len(words) THEN PushLast(closed, line)
    ELSE LET placed == PlaceWord(line, closed, words[i], width)
         IN LayoutFrom(words, i + 1, placed.currentLine, placed.lines, width)

\* -------------------------------------------------------- frame rendering
\* The values the program gives fillStyle, font and textAlign, and the ones a
\* new 2D context starts with.  A fill style is a list of colours: one colour,
\* or the two stops of the linear gradient.
PanelStyle == <<"rgba(15, 23, 42, 0.75)">>
TitleStyle == <<"#f8fafc">>
CaptionStyle == <<"rgba(226, 232, 240, 0.72)">>
TitleFont == "bold 64px Inter, sans-serif"
NarrationFont == "400 36px Inter, sans-serif"
CaptionFont == "500 28px Inter, sans-serif"

FreshCtx == [fillStyle |-> <<"#000000">>, font |-> "10px sans-serif", textAlign |-> "start"]

CtxStates ==
    [fillStyle : {FreshCtx.fillStyle, PanelStyle, TitleStyle, CaptionStyle},
     font : {FreshCtx.font, TitleFont, NarrationFont, CaptionFont},
     textAlign : {"start", "center", "left"}]

Translucent == {PanelStyle, CaptionStyle}

\* The pixel size of a font: measureText scales with it.
FontPx(font) ==
    IF font = TitleFont THEN 64
    ELSE IF font = NarrationFont THEN 36
    ELSE IF font = CaptionFont THEN 28
    ELSE 10

\* The scenes handed to drawScene: a narration that fits one line and one that
\* takes two at the narration font.
RenderScenes ==
    [title : {"Hook", "Offer"},
     narration : {<<"a", " ", "W">>,
                  <<"W", "W", "W", "W", "W", "W", " ", "W", "W", "W", "W">>},
     visualDirection : {"close-up", "wide"}]

NoScene == [title |-> "", narration |-> <<>>, visualDirection |-> ""]

\* What one paint call puts on the bitmap: a rectangle takes the fill style,
\* a text the fill style, the font and the alignment.
RectOp(c, x, y, w, h) ==
    [op |-> "fillRect", style |-> c.fillStyle, font |-> "", align |-> "",
     text |-> <<>>, x |-> x, y |-> y, w |-> w, h |-> h]

TextOp(c, text, x, y, maxWidth) ==
    [op |-> "fillText", style |-> c.fillStyle, font |-> c.font, align |-> c.textAlign,
     text |-> text, x |-> x, y |-> y, w |-> maxWidth, h |-> 0]

\* A fillRect that always paints over what is there.
fillRectOver(cv, c, x, y, w, h) == Append(cv, RectOp(c, x, y, w, h))

\* ctx.fillRect: an opaque fill of the whole canvas replaces everything painted
\* before it; any other fill goes on top.
fillRect(cv, c, x, y, w, h) ==
    IF x = 0 /\ y = 0 /\ w = canvasWidth /\ h = canvasHeight /\ c.fillStyle \notin Translucent
    THEN <<RectOp(c, x, y, w, h)>>
    ELSE Append(cv, RectOp(c, x, y, w, h))

\* ctx.fillText with the current fillStyle, font and textAlign; maxWidth 0
\* stands for a call without one.
fillText(cv, c, text, x, y, maxWidth) ==
    Append(cv, TextOp(c, text, x, y, maxWidth))

\* lines.forEach((line, idx) => ctx.fillText(line, padding + 40, 420 + idx * 48)).
RECURSIVE fillLines(_, _, _, _)
fillLines(cv, c, textLines, idx) ==
    IF idx >= Len(textLines) THEN cv
    ELSE fillLines(fillText(cv, c, textLines[idx + 1], padding + 40, 420 + idx * 48, 0),
                   c, textLines, idx + 1)

\* drawScene, statement by statement, on the context settings c0 and the
\* bitmap cv0 it finds: the settings and the bitmap it leaves.
drawSceneOps(c0, cv0, scene, palette) ==
    LET c1 == [c0 EXCEPT !.fillStyle = palette]
        cv1 == fillRect(cv0, c1, 0, 0, canvasWidth, canvasHeight)
        c2 == [c1 EXCEPT !.fillStyle = PanelStyle]
        cv2 == fillRect(cv1, c2, padding, 200, canvasWidth - padding * 2, canvasHeight - 400)
        c3 == [c2 EXCEPT !.fillStyle = TitleStyle, !.font = TitleFont, !.textAlign = "center"]
        cv3 == fillText(cv2, c3, <<scene.title>>, canvasWidth \div 2, 320,
                        canvasWidth - padding * 2 - 32)
        c4 == [c3 EXCEPT !.font = NarrationFont, !.textAlign = "left"]
        width == canvasWidth - padding * 2 - 80
        textLines == LayoutFrom(split(scene.narration), 1, <<>>, <<>>,
                                width \div FontPx(c4.font))
        cv4 == fillLines(cv3, c4, textLines, 0)
        c5 == [c4 EXCEPT !.fillStyle = CaptionStyle, !.font = CaptionFont,
                         !.textAlign = "left"]
        cv5 == fillText(cv4, c5, <<"Visual: ", scene.visualDirection>>, padding + 40,
                        canvasHeight - 120, width)
    IN [ctx |-> c5, canvas |-> cv5]

\* ------------------------------------------------------------- agent API
\* A JSON value as the route sees it: its type, its characters or items when
\* it is a string or an array, its number when it is a number.
Undefined == [t |-> "undefined", chars |-> <<>>, num |-> 0]
Str(chars) == [t |-> "string", chars |-> chars, num |-> 0]
Num(n) == [t |-> "number", chars |-> <<>>, num |-> n]
NaNValue == [t |-> "NaN", chars |-> <<>>, num |-> 0]
Arr(items) == [t |-> "array", chars |-> items, num |-> 0]

\* !value.
Falsy(value) ==
    \/ value.t \in {"undefined", "NaN"}
    \/ (value.t = "string" /\ value.chars = <<>>)
    \/ (value.t = "number" /\ value.num = 0)

\* Number(value).
ToNumber(value) ==
    IF value.t = "number" THEN value
    ELSE IF value.t = "string" /\ trim(value.chars) = <<>> THEN Num(0)
    ELSE NaNValue

ErrIdea == "Missing campaign idea"
ErrTone == "Missing tone"
ErrAudience == "Missing target audience"
ErrLength == "Missing desired length"
ErrPlatforms == "Select at least one platform"
ErrOrchestrate == "Failed to orchestrate agent."

\* The request bodies: an object with each field absent, empty or filled (the
\* idea also blank, padded, or a number; the length also zero or a string),
\* the JSON text null, and a body that is no JSON at all.
Payloads ==
    [idea : {Undefined, Str(<<>>), Str(<<" ">>), Str(<<"a">>), Str(<<" ", "a", " ">>), Num(5)},
     tone : {Undefined, Str(<<>>), Str(<<"a">>)},
     targetAudience : {Undefined, Str(<<>>), Str(<<"a">>)},
     lengthSeconds : {Undefined, Num(0), Num(30), Str(<<"W">>)},
     platforms : {Undefined, Arr(<<>>), Arr(<<"tiktok">>)}]

NoPayload ==
    [idea |-> Undefined, tone |-> Undefined, targetAudience |-> Undefined,
     lengthSeconds |-> Undefined, platforms |-> Undefined]

Requests ==
    {[kind |-> "object", body |-> p] : p \in Payloads}
    \cup {[kind |-> "null", body |-> NoPayload], [kind |-> "invalid", body |-> NoPayload]}

\* validate: the message of the first failing test, or null.
validate(payload) ==
    IF Falsy(payload.idea) \/ Len(trim(payload.idea.chars)) = 0 THEN ErrIdea
    ELSE IF Falsy(payload.tone) THEN ErrTone
    ELSE IF Falsy(payload.targetAudience) THEN ErrAudience
    ELSE IF Falsy(payload.lengthSeconds) \/ payload.lengthSeconds.t = "NaN" THEN ErrLength
    ELSE IF Falsy(payload.platforms)
            \/ (payload.platforms.t \in {"array", "string"} /\ Len(payload.platforms.chars) = 0)
    THEN ErrPlatforms
    ELSE Null

\* payload.idea.trim() on a truthy idea that is no string: a TypeError.
validateThrows(payload) == ~Falsy(payload.idea) /\ payload.idea.t # "string"

\* The AgentRequest handed to runAgent.
AgentPayload(json) ==
    [idea |-> Str(trim(json.idea.chars)), tone |-> json.tone,
     targetAudience |-> json.targetAudience,
     lengthSeconds |-> ToNumber(json.lengthSeconds), platforms |-> json.platforms]

NoResponse == [status |-> 0, error |-> Null]

\* ---------------------------------------------------------- social planner
PlannerPlatforms == {"youtube", "tiktok"}

\* A SocialPostPlan: its platform, and its caption standing for the fields
\* the planner only displays.
Posts == [platform : PlannerPlatforms, caption : 1..MaxCaptions]

PostLists == UNION {[1..n -> Posts] : n \in 0..MaxPosts}

\* randomRange(min, max) at both ends of each range.
AnalyticsSamples ==
    {[views |-> 1200, likes |-> 120, comments |-> 12],
     [views |-> 9500, likes |-> 2100, comments |-> 320]}

\* { ...post, publishedAt, analytics }.
PublishedPost(post, publishedAt, analytics) ==
    [platform |-> post.platform, caption |-> post.caption,
     publishedAt |-> publishedAt, analytics |-> analytics]

\* JSON.stringify(published): the text, one tuple of field values per entry.
stringify(list) ==
    [i \in 1..Len(list) |->
        <<list[i].platform, list[i].caption, list[i].publishedAt,
          list[i].analytics.views, list[i].analytics.likes, list[i].analytics.comments>>]

\* JSON.parse(stored) of such a text.
parse(text) ==
    [i \in 1..Len(text) |->
        [platform |-> text[i][1], caption |-> text[i][2], publishedAt |-> text[i][3],
         analytics |-> [views |-> text[i][4], likes |-> text[i][5], comments |-> text[i][6]]]]

\* The item "agentic-published": absent, text JSON.parse rejects, or JSON.
NoItem == [kind |-> "absent", text |-> <<>>]
BadItem == [kind |-> "garbage", text |-> <<>>]
Item(text) == [kind |-> "json", text |-> text]

\* ---------------------------------------------------------------- actions
Constructed ==
    /\ runtime \in
         {[mediaRecorder |-> FALSE, supported |-> {}, ctx |-> c] : c \in BOOLEAN}
         \cup {[mediaRecorder |-> TRUE, supported |-> s, ctx |-> c] :
                 s \in SUBSET CandidateSet, c \in BOOLEAN}
    /\ autoGenerate \in BOOLEAN
    /\ loading = FALSE
    /\ dashVideoUrl = NoUrl
    /\ canvasRef = Null
    /\ scenes = <<>>
    /\ status = "idle"
    /\ error = Null
    /\ videoUrl = NoUrl
    /\ effectPending = FALSE
    /\ runs = <<>>
    /\ blobs = <<>>
    /\ liveUrls = {}
    /\ surface = Blank
    /\ lastOutcome = "none"
    /\ unmounted = FALSE

\* No text layout is under way.
NoLayout ==
    /\ narration = <<>>
    /\ textWidth = 0
    /\ wordIndex = 0
    /\ currentLine = <<>>
    /\ lines = <<>>

\* No request is being served.
NoRequest ==
    /\ request = [kind |-> "invalid", body |-> NoPayload]
    /\ response = NoResponse
    /\ agentCalls = <<>>

\* The planner is not on the page.
NoPlanner ==
    /\ plannerMounted = FALSE
    /\ scheduled = <<>>
    /\ published = <<>>
    /\ storage = NoItem

\* No frame has been painted.
NoRender ==
    /\ ctx = FreshCtx
    /\ canvas = <<>>
    /\ rendered = [scene |-> NoScene, palette |-> <<>>, index |-> 0, count |-> 0]

Init == Constructed /\ timed = FALSE /\ NoLayout /\ NoRender /\ NoRequest /\ NoPlanner

\* The same start with elapsed time tracked.
TimedInit == Constructed /\ timed = TRUE /\ NoLayout /\ NoRender /\ NoRequest /\ NoPlanner

\* AgentDashboard.handleSubmit up to the fetch.
handleSubmit ==
    /\ ~effectPending
    /\ ~unmounted
    /\ ~loading
    /\ loading' = TRUE
    /\ dashVideoUrl' = NoUrl
    /\ UNCHANGED <<envVars, canvasRef, scenes, effectPending, blobs, composerVars>>

\* handleSubmit after the fetch: setResult(payload) mounts VideoComposer or
\* hands it a new scenes array; either way the effect's dependencies changed.
SubmitResolved(list) ==
    /\ ~effectPending
    /\ ~unmounted
    /\ loading
    /\ loading' = FALSE
    /\ scenes' = list
    /\ canvasRef' = "canvas"
    /\ effectPending' = TRUE
    /\ UNCHANGED <<envVars, dashVideoUrl, blobs, composerVars>>

SubmitFailed ==
    /\ ~effectPending
    /\ ~unmounted
    /\ loading
    /\ loading' = FALSE
    /\ UNCHANGED <<envVars, dashVideoUrl, canvasRef, scenes, effectPending, blobs,
                   composerVars>>

\* The effect without its scenes.length > 0 test.
AutoGenerateEffectUnguarded ==
    /\ effectPending
    /\ ~unmounted
    /\ IF autoGenerate
       THEN /\ generateVideo
            /\ effectPending' = (videoUrl' # videoUrl)
       ELSE /\ effectPending' = FALSE
            /\ UNCHANGED <<status, error, videoUrl, runs, liveUrls, surface, lastOutcome>>
    /\ UNCHANGED <<envVars, loading, dashVideoUrl, canvasRef, scenes, blobs>>

\* The useEffect on [scenes, autoGenerate, generateVideo].
AutoGenerateEffect ==
    /\ effectPending
    /\ ~unmounted
    /\ IF autoGenerate /\ Len(scenes) > 0
       THEN /\ generateVideo
            /\ effectPending' = (videoUrl' # videoUrl)
       ELSE /\ effectPending' = FALSE
            /\ lastOutcome' = IF autoGenerate THEN "emptyScenes" ELSE lastOutcome
            /\ UNCHANGED <<status, error, videoUrl, runs, liveUrls, surface>>
    /\ UNCHANGED <<envVars, loading, dashVideoUrl, canvasRef, scenes, blobs>>

\* The Render Video / Regenerate button.
ClickRender ==
    /\ ~effectPending
    /\ canvasRef # Null
    /\ ~(Len(scenes) = 0 \/ status = "rendering")
    /\ generateVideo
    /\ effectPending' = (videoUrl' # videoUrl)
    /\ UNCHANGED <<envVars, loading, dashVideoUrl, canvasRef, scenes, blobs>>

\* wait(200) resolves; the run goes on to wait(durationSeconds * 1000).
SettleDone(r) ==
    /\ ~effectPending
    /\ runs[r].pc = "settle"
    /\ TimerDue(runs[r], SettleMs)
    /\ runs' = [runs EXCEPT ![r].pc = "hold", ![r].waited = 0,
                             ![r].sinceDraw = @ + runs[r].waited]
    /\ UNCHANGED <<envVars, loading, dashVideoUrl, canvasRef, scenes, effectPending,
                   blobs, status, error, videoUrl, liveUrls, surface, lastOutcome>>

\* wait(duration) resolves: next loop iteration, or recorder.stop() and the
\* await; a promise already rejected is observed at that await.
HoldDone(r) ==
    LET run == runs[r] IN
    /\ ~effectPending
    /\ run.pc = "hold"
    /\ TimerDue(run, HoldMs(run.scenes[run.index + 1]))
    /\ UNCHANGED <<envVars, loading, canvasRef, scenes>>
    /\ IF run.index + 1 < Len(run.scenes) THEN
           /\ runs' = [runs EXCEPT ![r] = LoopIteration(run, run.index + 1)]
           /\ surface' = drawScene(r, run.scenes, run.index + 1)
           /\ UNCHANGED <<dashVideoUrl, effectPending, blobs, status, error, videoUrl,
                          liveUrls, lastOutcome>>
       ELSE IF run.rejected THEN
           /\ runs' = [runs EXCEPT ![r] = Finished]
           /\ \E err \in RejectionValues : Fail(err)
       ELSE
           /\ runs' = [runs EXCEPT ![r] = StopAfterLastHold(run)]
           /\ UNCHANGED <<dashVideoUrl, effectPending, blobs, status, error, videoUrl,
                          liveUrls, surface, lastOutcome>>

\* A dataavailable event of run r's recorder.  start() is called without a
\* timeslice, so data is delivered only once stop() has been called.
DataAvailable(r, size) ==
    LET run == runs[r]
        data == [run |-> r, seq |-> Len(run.sent) + 1, size |-> size]
    IN
    /\ ~effectPending
    /\ run.rec = "stopping"
    /\ Len(run.sent) < MaxChunks
    /\ runs' = [runs EXCEPT
                  ![r].sent = Append(run.sent, data),
                  ![r].chunks = ondataavailable(run.chunks, data)]
    /\ UNCHANGED <<envVars, loading, dashVideoUrl, canvasRef, scenes, effectPending,
                   blobs, status, error, videoUrl, liveUrls, surface, lastOutcome>>

\* recorder.onerror: reject(event.error); a run already awaiting the promise
\* goes straight to its catch block.
RecorderError(r) ==
    LET run == runs[r] IN
    /\ ~effectPending
    /\ run.rec \in {"recording", "stopping"}
    /\ UNCHANGED <<envVars, loading, canvasRef, scenes>>
    /\ IF run.pc = "awaitStop" THEN
           /\ runs' = [runs EXCEPT ![r] = Finished]
           /\ \E err \in RejectionValues : Fail(err)
       ELSE
           /\ runs' = [runs EXCEPT ![r].rec = "inactive", ![r].rejected = TRUE]
           /\ UNCHANGED <<dashVideoUrl, effectPending, blobs, status, error, videoUrl,
                          liveUrls, surface, lastOutcome>>

\* recorder.onstop: resolve(new Blob(chunks)), then the rest of generateVideo.
RecorderStop(r) ==
    /\ ~effectPending
    /\ runs[r].rec = "stopping"
    /\ runs' = [runs EXCEPT ![r] = Finished]
    /\ Publish(r)
    /\ UNCHANGED <<envVars, loading, canvasRef, scenes>>

\* TickMs of time pass: every pending timer has waited that much longer
\* (counted up to its delay; a timer that is due stays due).
Elapse(run) ==
    IF run.pc \in {"settle", "hold"}
    THEN [run EXCEPT
            !.waited = Min(@ + TickMs,
                           IF run.pc = "settle" THEN SettleMs
                           ELSE HoldMs(run.scenes[run.index + 1]))]
    ELSE run

Tick ==
    /\ timed
    /\ ~effectPending
    /\ \E r \in DOMAIN runs : Elapse(runs[r]) # runs[r]
    /\ runs' = [r \in DOMAIN runs |-> Elapse(runs[r])]
    /\ UNCHANGED <<envVars, loading, dashVideoUrl, canvasRef, scenes, effectPending,
                   blobs, status, error, videoUrl, liveUrls, surface, lastOutcome>>

\* The page is left: React unmounts AgentDashboard and VideoComposer, clears
\* the canvas ref and drops their state; no cleanup function is registered.
\* Timers and recorders of runs in flight live on.
Unmount ==
    /\ ~effectPending
    /\ ~unmounted
    /\ canvasRef # Null
    /\ unmounted' = TRUE
    /\ canvasRef' = Null
    /\ UNCHANGED <<runtime, autoGenerate, timed, layoutVars, renderVars, sideVars, loading,
                   dashVideoUrl,
                   scenes, effectPending, blobs, composerVars>>

Next ==
    \/ handleSubmit
    \/ \E list \in SceneLists : SubmitResolved(list)
    \/ SubmitFailed
    \/ AutoGenerateEffect
    \/ ClickRender
    \/ \E r \in DOMAIN runs : SettleDone(r)
    \/ \E r \in DOMAIN runs : HoldDone(r)
    \/ \E r \in DOMAIN runs : \E size \in {0, 1} : DataAvailable(r, size)
    \/ \E r \in DOMAIN runs : RecorderError(r)
    \/ \E r \in DOMAIN runs : RecorderStop(r)

Spec == Init /\ [][Next]_vars

\* The component with elapsed time tracked: timers fire only when due.
TimedSpec == TimedInit /\ [][Next \/ Tick]_vars

\* The component's life including its unmount.
TeardownSpec == Init /\ [][Next \/ Unmount]_vars

\* The host scheduler runs every scheduled callback: a pending effect is
\* flushed, a timer that was set fires, and a recorder that was told to stop
\* delivers its stop event unless it reports an error first.  Callbacks wait
\* while an effect flush is pending, which never lasts, hence strong fairness.
\* Which codec the host picked has no bearing on scheduling: the fair
\* behaviours start from the hosts that support every candidate or none.
FairInit == Init /\ runtime.supported \in {{}, CandidateSet}

FairSpec ==
    /\ FairInit
    /\ [][Next]_vars
    /\ WF_vars(AutoGenerateEffect)
    /\ \A r \in 1..MaxRuns : SF_vars(r \in DOMAIN runs /\ SettleDone(r))
    /\ \A r \in 1..MaxRuns : SF_vars(r \in DOMAIN runs /\ HoldDone(r))
    /\ \A r \in 1..MaxRuns : SF_vars(r \in DOMAIN runs /\ RecorderStop(r))

\* ----------------------------------------------- text layout, step by step
componentVars ==
    <<runtime, autoGenerate, loading, dashVideoUrl, canvasRef, scenes, status, error,
      videoUrl, effectPending, runs, blobs, liveUrls, surface, lastOutcome, timed,
      unmounted>>

\* drawScene reaches its text layout with some narration and some line width.
LayoutInit ==
    /\ Constructed
    /\ runtime = [mediaRecorder |-> TRUE, supported |-> CandidateSet, ctx |-> TRUE]
    /\ autoGenerate = TRUE
    /\ timed = FALSE
    /\ narration \in Narrations
    /\ textWidth \in 1..MaxTextWidth
    /\ wordIndex = 0
    /\ currentLine = <<>>
    /\ lines = <<>>
    /\ NoRender
    /\ NoRequest
    /\ NoPlanner

\* One iteration of words.forEach.
PlaceNextWord ==
    LET words == split(narration) IN
    /\ wordIndex < Len(words)
    /\ LET placed == PlaceWord(currentLine, lines, words[wordIndex + 1], textWidth)
       IN /\ currentLine' = placed.currentLine
          /\ lines' = placed.lines
    /\ wordIndex' = wordIndex + 1
    /\ UNCHANGED <<componentVars, renderVars, sideVars, narration, textWidth>>

\* The statement after the loop.
FinishLayout ==
    /\ wordIndex = Len(split(narration))
    /\ lines' = PushLast(lines, currentLine)
    /\ wordIndex' = wordIndex + 1
    /\ UNCHANGED <<componentVars, renderVars, sideVars, narration, textWidth, currentLine>>

LayoutNext == PlaceNextWord \/ FinishLayout

LayoutSpec == LayoutInit /\ [][LayoutNext]_vars

\* ---------------------------------------------- frame rendering, call by call
\* The context is in any state its three settings allow; the canvas is blank.
RenderInit ==
    /\ Constructed
    /\ runtime = [mediaRecorder |-> TRUE, supported |-> CandidateSet, ctx |-> TRUE]
    /\ autoGenerate = TRUE
    /\ timed = FALSE
    /\ NoLayout
    /\ ctx \in CtxStates
    /\ canvas = <<>>
    /\ rendered = [scene |-> NoScene, palette |-> <<>>, index |-> 0, count |-> 0]
    /\ NoRequest
    /\ NoPlanner

\* drawScene(ctx, canvas, scene, pickPalette(index)).
DrawScene(scene, index) ==
    LET palette == colors[pickPalette(index) + 1]
        drawn == drawSceneOps(ctx, canvas, scene, palette)
    IN
    /\ rendered.count < MaxRenders
    /\ ctx' = drawn.ctx
    /\ canvas' = drawn.canvas
    /\ rendered' = [scene |-> scene, palette |-> palette, index |-> index,
                    count |-> rendered.count + 1]
    /\ UNCHANGED <<componentVars, layoutVars, sideVars>>

\* canvas.width = 720; canvas.height = 1280: assigning a dimension clears the
\* bitmap and resets the context.
ResizeCanvas ==
    /\ ctx' = FreshCtx
    /\ canvas' = <<>>
    /\ rendered' = [rendered EXCEPT !.scene = NoScene, !.palette = <<>>, !.index = 0]
    /\ UNCHANGED <<componentVars, layoutVars, sideVars>>

RenderNext ==
    \/ \E scene \in RenderScenes : \E index \in 0..MaxIndex : DrawScene(scene, index)
    \/ ResizeCanvas

RenderSpec == RenderInit /\ [][RenderNext]_vars

\* ------------------------------------------------- agent API, one request
ApiInit ==
    /\ Constructed
    /\ runtime = [mediaRecorder |-> TRUE, supported |-> CandidateSet, ctx |-> TRUE]
    /\ autoGenerate = TRUE
    /\ timed = FALSE
    /\ NoLayout
    /\ NoRender
    /\ NoPlanner
    /\ request \in Requests
    /\ response = NoResponse
    /\ agentCalls = <<>>

\* POST up to `await runAgent(payload)`: request.json() rejects a body that is
\* no JSON, property access on null and trim on a non-string throw, and the
\* catch block answers every throw with 500.
POST ==
    /\ response = NoResponse
    /\ agentCalls = <<>>
    /\ IF request.kind # "object" \/ validateThrows(request.body) THEN
           /\ response' = [status |-> 500, error |-> ErrOrchestrate]
           /\ UNCHANGED agentCalls
       ELSE IF validate(request.body) # Null THEN
           /\ response' = [status |-> 400, error |-> validate(request.body)]
           /\ UNCHANGED agentCalls
       ELSE
           /\ agentCalls' = Append(agentCalls, AgentPayload(request.body))
           /\ UNCHANGED response
    /\ UNCHANGED <<componentVars, layoutVars, renderVars, plannerVars, request>>

\* runAgent resolves: NextResponse.json(result, { status: 200 }).
AgentResolves ==
    /\ response = NoResponse
    /\ agentCalls # <<>>
    /\ response' = [status |-> 200, error |-> Null]
    /\ UNCHANGED <<componentVars, layoutVars, renderVars, plannerVars, request, agentCalls>>

\* runAgent rejects: the catch block.
AgentThrows ==
    /\ response = NoResponse
    /\ agentCalls # <<>>
    /\ response' = [status |-> 500, error |-> ErrOrchestrate]
    /\ UNCHANGED <<componentVars, layoutVars, renderVars, plannerVars, request, agentCalls>>

ApiNext == POST \/ AgentResolves \/ AgentThrows

ApiSpec == ApiInit /\ [][ApiNext]_vars

\* --------------------------------------------------------- social planner
PlannerInit ==
    /\ Constructed
    /\ runtime = [mediaRecorder |-> TRUE, supported |-> CandidateSet, ctx |-> TRUE]
    /\ autoGenerate = TRUE
    /\ timed = FALSE
    /\ NoLayout
    /\ NoRender
    /\ NoRequest
    /\ plannerMounted = FALSE
    /\ scheduled = <<>>
    /\ published = <<>>
    /\ storage \in {NoItem, BadItem, Item(stringify(<<>>))}

\* The planner mounts with its posts. The three effects run in order after
\* the first render: setScheduled(posts); the stored item, if JSON.parse takes
\* it, goes to setPublished; the list of the first render, [], is written
\* to the item. When setPublished was called the next render runs the
\* [published] effect again, which writes the parsed list.
MountPlanner(posts) ==
    LET firstPass == Item(stringify(<<>>)) IN
    /\ ~plannerMounted
    /\ plannerMounted' = TRUE
    /\ scheduled' = posts
    /\ IF storage.kind = "json" THEN
           /\ published' = parse(storage.text)
           /\ storage' = Item(stringify(published'))
       ELSE
           /\ published' = <<>>
           /\ storage' = firstPass
    /\ UNCHANGED <<componentVars, layoutVars, renderVars, apiVars>>

\* The posts prop changes: setScheduled(posts).
PostsChanged(posts) ==
    /\ plannerMounted
    /\ posts # scheduled
    /\ scheduled' = posts
    /\ UNCHANGED <<componentVars, layoutVars, renderVars, apiVars, plannerMounted, published,
                   storage>>

\* handlePostNow that drops only the posts with the caption of the post.
handlePostNowByCaption(post, publishedAt, analytics) ==
    /\ plannerMounted
    /\ Len(published) < MaxPublished
    /\ \E i \in DOMAIN scheduled : scheduled[i] = post
    /\ published' = <<PublishedPost(post, publishedAt, analytics)>> \o published
    /\ scheduled' = SelectSeq(scheduled, LAMBDA item : item.caption # post.caption)
    /\ storage' = Item(stringify(published'))
    /\ UNCHANGED <<componentVars, layoutVars, renderVars, apiVars, plannerMounted>>

\* "Publish now" on a scheduled post, and the [published] effect of the
\* render that follows.
handlePostNow(post, publishedAt, analytics) ==
    /\ plannerMounted
    /\ Len(published) < MaxPublished
    /\ \E i \in DOMAIN scheduled : scheduled[i] = post
    /\ published' = <<PublishedPost(post, publishedAt, analytics)>> \o published
    /\ scheduled' = SelectSeq(scheduled, LAMBDA item : item.platform # post.platform)
    /\ storage' = Item(stringify(published'))
    /\ UNCHANGED <<componentVars, layoutVars, renderVars, apiVars, plannerMounted>>

\* The planner leaves the page: its state goes, the stored item stays.
UnmountPlanner ==
    /\ plannerMounted
    /\ plannerMounted' = FALSE
    /\ scheduled' = <<>>
    /\ published' = <<>>
    /\ UNCHANGED <<componentVars, layoutVars, renderVars, apiVars, storage>>

PlannerNext ==
    \/ \E posts \in PostLists : MountPlanner(posts)
    \/ \E posts \in PostLists : PostsChanged(posts)
    \/ \E post \in Posts, publishedAt \in 1..MaxStamps, analytics \in AnalyticsSamples :
          handlePostNow(post, publishedAt, analytics)
    \/ UnmountPlanner

PlannerSpec == PlannerInit /\ [][PlannerNext]_vars

\* ------------------------------------------------------- claim vocabulary
InFlight(r) == r \in DOMAIN runs /\ runs[r].pc # "done"

\* A newer generateVideo call has started a run after run r.
Superseded(r) == r < Len(runs)

\* This step is the one in which run r's generateVideo call returns.
Completes(r) == runs[r].pc # "done" /\ runs'[r].pc = "done"

\* This step is a loop iteration of run r painting its next scene.
Draws(r) == runs[r].pc = "hold" /\ runs'[r].pc = "settle"

Recording == {r \in DOMAIN runs : runs[r].rec = "recording"}

FailureOutcomes == {"noCanvas", "noMediaRecorder", "noCodec", "noContext", "encoderError"}

\* The auto-generate effect has called generateVideo for the current scenes.
RequestMade ==
    /\ canvasRef # Null
    /\ ~effectPending
    /\ autoGenerate
    /\ Len(scenes) > 0

\* The pending effect would start a run but the model's run budget is spent.
EffectBlocked ==
    /\ effectPending
    /\ autoGenerate
    /\ Len(scenes) > 0
    /\ Precheck = "ok"
    /\ runtime.ctx
    /\ Len(runs) = MaxRuns

\* ------------------------------------------------------------------ claims

\* C1: once a newer run has started, the completion of an earlier run leaves
\* videoUrl, the handle given to onVideoReady and status as they were.
C1_StaleCompletionIgnored ==
    [][\A r \in DOMAIN runs :
          (Superseded(r) /\ Completes(r)) =>
              (videoUrl' = videoUrl /\ dashVideoUrl' = dashVideoUrl /\ status' = status)]_vars

\* C2: under fair scheduling, whenever status is rendering the machine later
\* reaches ready or error (or the model's run budget stops the pending effect).
C2_RenderingEnds ==
    (status = "rendering") ~> (status \in {"ready", "error"} \/ EffectBlocked)

C2_Witness ==
    /\ status = "ready"
    /\ Len(runs) = 1
    /\ Len(blobs) = 1

\* C3: at most one minted object URL is unrevoked at any time.
C3_AtMostOneLiveHandle == Cardinality(liveUrls) <= 1

\* C4: status changes only along idle->rendering, rendering->ready,
\* rendering->error, ready->rendering and error->rendering, and a completion
\* never publishes over a status that is already ready.
SpecTransitions ==
    {<<"idle", "rendering">>, <<"rendering", "ready">>, <<"rendering", "error">>,
     <<"ready", "rendering">>, <<"error", "rendering">>}

C4_OnlySpecTransitions ==
    [][/\ (status' # status => <<status, status'>> \in SpecTransitions)
       /\ (Len(blobs') # Len(blobs) => status = "rendering")]_vars

\* C5: at most one run is between its recorder.start and its recorder.stop.
C5_SingleFlight == Cardinality(Recording) <= 1

\* C6: a run that has been superseded by a newer run paints no further scene.
C6_SupersededRunStops ==
    [][\A r \in DOMAIN runs : Superseded(r) => ~Draws(r)]_vars

\* C7: whenever status is error, videoUrl is null and no minted handle is live.
C7_ErrorHasNoHandle ==
    status = "error" => (videoUrl = NoUrl /\ liveUrls = {})

IsFirstSupportedCandidate(m) ==
    \E i \in 1..Len(candidates) :
        /\ candidates[i] = m
        /\ m \in runtime.supported
        /\ \A j \in 1..Len(candidates) : j < i => candidates[j] \notin runtime.supported

C10_CodecSelection ==
    /\ \A r \in DOMAIN runs : InFlight(r) => IsFirstSupportedCandidate(runs[r].mime)
    /\ \A u \in DOMAIN blobs : IsFirstSupportedCandidate(blobs[u].type)
    /\ (runtime.mediaRecorder /\ runtime.supported = {}) =>
          /\ runs = <<>> /\ blobs = <<>>
          /\ lastOutcome \in {"none", "emptyScenes", "noCodec"}
          /\ (lastOutcome = "noCodec" => status = "error")
          /\ (RequestMade => status = "error")
          /\ (status = "error" => error = ErrCodec)
          /\ status \in {"idle", "error"}

C10_Witness ==
    /\ runtime.supported = {candidates[2], candidates[3]}
    /\ Len(blobs) = 1
    /\ blobs[1].type = candidates[2]

\* C11: when a run ends because its recorder reported an error, status becomes
\* error, no blob is minted, videoUrl is null afterwards and onVideoReady is
\* not called.
C11_EncoderErrorLeavesNoHandle ==
    [][\A r \in DOMAIN runs :
          (Completes(r) /\ lastOutcome' = "encoderError") =>
              /\ status' = "error"
              /\ blobs' = blobs
              /\ dashVideoUrl' = dashVideoUrl
              /\ videoUrl' = NoUrl]_vars

\* C11, the part that is the failing run's own doing: it mints nothing and
\* leaves videoUrl and the dashboard's handle as they were.
C11_FailingRunPublishesNothing ==
    [][\A r \in DOMAIN runs :
          (Completes(r) /\ lastOutcome' = "encoderError") =>
              /\ status' = "error"
              /\ blobs' = blobs /\ liveUrls' = liveUrls
              /\ dashVideoUrl' = dashVideoUrl
              /\ videoUrl' = videoUrl]_vars

\* The scenes run has painted so far, in the order it painted them.
RECURSIVE DrawnScenes(_)
DrawnScenes(log) ==
    IF log = <<>> THEN <<>>
    ELSE IF log[1].ev = "draw" THEN <<log[1].scene>> \o DrawnScenes(Tail(log))
    ELSE DrawnScenes(Tail(log))

\* The time a scene has to stay on the canvas before the next one is painted.
RequiredGapMs(scene) == SettleMs + durationSeconds(scene) * MsPerSecond

\* C12: within one run the scenes are painted in list order, each exactly
\* once, and the next scene is painted only after the 200 ms settle delay plus
\* the previous scene's full durationSeconds have elapsed since it was painted.
C12_ScenesInOrderAndHeld ==
    /\ [](\A r \in DOMAIN runs : InFlight(r) =>
            /\ DrawnScenes(runs[r].log) = SubSeq(runs[r].scenes, 1, runs[r].index + 1)
            /\ (runs[r].pc = "awaitStop" => DrawnScenes(runs[r].log) = runs[r].scenes))
    /\ [][\A r \in DOMAIN runs : Draws(r) =>
            /\ runs'[r].index = runs[r].index + 1
            /\ surface'.scene = runs[r].scenes[runs[r].index + 2]
            /\ runs[r].sinceDraw + runs[r].waited >=
                   RequiredGapMs(runs[r].scenes[runs[r].index + 1])]_vars

C12_Witness ==
    /\ timed
    /\ \E r \in DOMAIN runs :
          /\ runs[r].index = 1
          /\ runs[r].pc = "hold"
          /\ DrawnScenes(runs[r].log) = <<1, 2>>

\* C13: a run's recorder is started before its first scene is painted, is
\* stopped only once the last scene's hold has elapsed, and a blob is minted
\* only in the step that observes the stop event of a recorder that was told
\* to stop.
C13_StartDrawStopMint ==
    /\ [](\A r \in DOMAIN runs : InFlight(r) =>
            /\ runs[r].log # <<>>
            /\ runs[r].log[1].ev = "start"
            /\ \A i \in DOMAIN runs[r].log :
                  runs[r].log[i].ev = "stop" =>
                      (i = Len(runs[r].log) /\ DrawnScenes(runs[r].log) = runs[r].scenes)
            /\ (runs[r].rec = "stopping" <=>
                  runs[r].log[Len(runs[r].log)].ev = "stop"))
    /\ [][\A r \in DOMAIN runs :
            (runs[r].rec = "recording" /\ runs'[r].rec = "stopping") =>
                /\ runs[r].pc = "hold"
                /\ runs[r].index + 1 = Len(runs[r].scenes)
                /\ runs[r].waited >= HoldMs(runs[r].scenes[Len(runs[r].scenes)])]_vars
    /\ [][Len(blobs') > Len(blobs) =>
            \E r \in DOMAIN runs :
                /\ runs[r].rec = "stopping"
                /\ Completes(r)
                /\ blobs'[Len(blobs')].run = r]_vars

C13_Witness ==
    /\ timed
    /\ lastOutcome = "published"
    /\ Len(blobs) = 1
    /\ blobs[1].run = 1

IsNonEmpty(data) == data.size > 0

\* C14: the blob a run mints holds exactly the non-empty chunks that run's own
\* recorder delivered between start and the stop event, in arrival order, and
\* is tagged with the selected media type; chunks of another run never appear
\* in it and a minted blob never changes.
C14_BlobIsRunsChunks ==
    /\ [](\A r \in DOMAIN runs : InFlight(r) =>
            /\ runs[r].chunks = SelectSeq(runs[r].sent, IsNonEmpty)
            /\ \A i \in DOMAIN runs[r].sent :
                  runs[r].sent[i].run = r /\ runs[r].sent[i].seq = i)
    /\ [](\A u \in DOMAIN blobs :
            \A i \in DOMAIN blobs[u].chunks :
               /\ blobs[u].chunks[i].run = blobs[u].run
               /\ blobs[u].chunks[i].size > 0
               /\ \A j \in DOMAIN blobs[u].chunks :
                     i < j => blobs[u].chunks[i].seq < blobs[u].chunks[j].seq)
    /\ [][\A r \in DOMAIN runs :
            (Completes(r) /\ Len(blobs') > Len(blobs)) =>
                blobs'[Len(blobs')] =
                    [chunks |-> SelectSeq(runs[r].sent, IsNonEmpty),
                     type |-> supportedMimeType, run |-> r]]_vars
    /\ [][\A u \in DOMAIN blobs : blobs'[u] = blobs[u]]_vars

C14_Witness ==
    \E u \in DOMAIN blobs :
        /\ Len(blobs[u].chunks) = 2
        /\ blobs[u].chunks[1].seq = 1
        /\ blobs[u].chunks[2].seq = 2

\* C15: once the component is unmounted no minted object URL is still live.
C15_UnmountRevokes == unmounted => liveUrls = {}

\* C16: while the scene list is empty no run is started, neither by the effect
\* nor by the button: status does not become rendering, no recorder is created,
\* no run ever works on an empty list, and without a run there is no blob.
C16_EmptyListStartsNothing ==
    /\ [][Len(scenes) = 0 =>
            /\ Len(runs') = Len(runs)
            /\ (status' = "rendering" => status = "rendering")
            /\ (lastOutcome' # lastOutcome =>
                  lastOutcome' \in {"emptyScenes", "published", "encoderError"})]_vars
    /\ [](\A r \in DOMAIN runs : InFlight(r) => Len(runs[r].scenes) > 0)
    /\ [](runs = <<>> => (blobs = <<>> /\ liveUrls = {} /\ status # "rendering"))

C16_Witness ==
    /\ canvasRef # Null
    /\ Len(scenes) = 0
    /\ autoGenerate
    /\ ~effectPending
    /\ lastOutcome = "emptyScenes"
    /\ status = "idle"
    /\ runs = <<>>

\* The layout has run to its end: `lines` is what drawScene paints.
LaidOut == wordIndex = Len(split(narration)) + 1

IsWord(text) == text # <<>>

\* The whitespace-delimited words of a string.
WordsOf(text) == SelectSeq(split(text), IsWord)

RECURSIVE WordsOfAll(_)
WordsOfAll(texts) ==
    IF texts = <<>> THEN <<>> ELSE WordsOf(Head(texts)) \o WordsOfAll(Tail(texts))

IsOversize(word) == measureText(word) > textWidth

HasOversizeWord(line) == \E i \in DOMAIN WordsOf(line) : IsOversize(WordsOf(line)[i])

\* C17: when no word of the narration measures wider than the maximum, every
\* line of the finished layout measures at most the maximum.
C17_LinesFit ==
    (LaidOut /\ \A i \in DOMAIN WordsOf(narration) : ~IsOversize(WordsOf(narration)[i]))
        => \A i \in DOMAIN lines : measureText(lines[i]) <= textWidth

C17_Witness ==
    /\ LaidOut
    /\ narration = <<"a", " ", "a", " ", "W">>
    /\ textWidth = 3
    /\ lines = << <<"a", " ", "a">>, <<"W">> >>

\* C18: the words of the finished layout's lines, read line after line, are
\* exactly the whitespace-delimited words of the narration in their order,
\* whatever whitespace the narration starts or ends with.
C18_WordsRoundTrip ==
    LaidOut => WordsOfAll(lines) = WordsOf(narration)

C18_Witness ==
    /\ LaidOut
    /\ narration = <<" ", "a", " ", "W", " ">>
    /\ textWidth = 2
    /\ WordsOfAll(lines) = << <<"a">>, <<"W">> >>

\* C19: every word wider than the maximum ends up, whole, as a line that holds
\* nothing but that word, whether it is the first, a middle or the last word.
C19_OversizeWordAlone ==
    LaidOut =>
        /\ \A i \in DOMAIN lines :
              HasOversizeWord(lines[i]) => lines[i] = WordsOf(lines[i])[1]
        /\ SelectSeq(lines, HasOversizeWord) = SelectSeq(WordsOf(narration), IsOversize)

C19_Witness ==
    /\ LaidOut
    /\ narration = <<"W", " ", "a", " ", "W">>
    /\ textWidth = 1
    /\ SelectSeq(lines, HasOversizeWord) = << <<"W">>, <<"W">> >>

\* C20: what the canvas shows after drawScene is fixed by the scene and the
\* palette alone: it is what drawScene leaves on a blank canvas with a new
\* context, whatever the canvas showed and however fillStyle, font and
\* textAlign were set before the call; and the context is left the same, too.
C20_RenderDependsOnSceneAndPalette ==
    rendered.scene # NoScene =>
        /\ canvas = drawSceneOps(FreshCtx, <<>>, rendered.scene, rendered.palette).canvas
        /\ ctx = drawSceneOps(FreshCtx, <<>>, rendered.scene, rendered.palette).ctx

C20_Witness ==
    /\ rendered.count = 2
    /\ rendered.scene.title = "Offer"
    /\ rendered.palette = colors[1]
    /\ Len(canvas) = 6
    /\ canvas[1].style = colors[1]

\* C21: the palette drawScene is given for scene index i is entry i mod 5 of
\* the five-entry colour table, whatever the scene and whatever was painted
\* before; indexes i and i + 5 get the same palette.
C21_PaletteIsIndexModFive ==
    /\ Len(colors) = 5
    /\ \A i \in 0..(MaxIndex - 5) :
          colors[pickPalette(i) + 1] = colors[pickPalette(i + 5) + 1]
    /\ rendered.scene # NoScene =>
          /\ \E k \in 0..4 :
                /\ \E q \in 0..MaxIndex : rendered.index = 5 * q + k
                /\ rendered.palette = colors[k + 1]
          /\ canvas[1].style = rendered.palette

C21_Witness ==
    /\ rendered.index = 7
    /\ rendered.palette = colors[3]
    /\ rendered.count = 2

\* The effect flush now pending was scheduled by a run publishing its handle,
\* not by a new scene list: nothing runs between a commit and its flush.
PublishFlushPending == effectPending /\ lastOutcome = "published"

\* C22: publishing a handle does not by itself start another run or revoke the
\* handle: the flush that follows a publish leaves status ready, videoUrl and
\* the live handles as they are and creates no recorder.
C22_ReadyIsStable ==
    [][PublishFlushPending =>
          /\ status' = "ready"
          /\ videoUrl' = videoUrl
          /\ liveUrls' = liveUrls
          /\ Len(runs') = Len(runs)]_vars

\* C23: whenever status is ready, videoUrl is a minted object URL that has not
\* been revoked, it is the URL minted last, which is the one last handed to
\* onVideoReady, and the dashboard holds that URL unless a new submit has
\* cleared its copy.
C23_ReadyHasLiveHandle ==
    status = "ready" =>
        /\ videoUrl # NoUrl
        /\ videoUrl \in DOMAIN blobs
        /\ videoUrl \in liveUrls
        /\ videoUrl = Len(blobs)
        /\ dashVideoUrl \in {videoUrl, NoUrl}

C23_Witness ==
    /\ status = "ready"
    /\ videoUrl = 2
    /\ liveUrls = {1, 2}
    /\ dashVideoUrl = 2

\* C24: error is non-null exactly when status is error.
C24_ReasonIffError == (error # Null) <=> (status = "error")

\* C24, the half that holds: status error always comes with a reason, and a
\* step that enters rendering clears the reason.
C24_ErrorHasReason ==
    /\ [](status = "error" => error # Null)
    /\ [][(status # "rendering" /\ status' = "rendering") => error' = Null]_vars

\* C25: every line of the finished layout holds at least one word, and a
\* narration without any word yields no line.
C25_NoEmptyLine ==
    LaidOut =>
        /\ \A i \in DOMAIN lines : WordsOf(lines[i]) # <<>>
        /\ (WordsOf(narration) = <<>> => lines = <<>>)

\* C25, the part that holds: a narration without any word yields no line, and
\* an empty line can only be the first one, ahead of an oversize first word.
C25_OnlyLeadingEmptyLine ==
    LaidOut =>
        /\ (WordsOf(narration) = <<>> => lines = <<>>)
        /\ \A i \in DOMAIN lines :
              WordsOf(lines[i]) = <<>> =>
                  (i = 1 /\ lines[i] = <<>> /\ IsOversize(WordsOf(narration)[1]))

\* C26: a request with a missing or blank idea, or a missing or empty tone,
\* targetAudience, lengthSeconds or platforms, is answered 400 with the
\* message of the first failing check in the order idea, tone, targetAudience,
\* lengthSeconds, platforms, and runAgent is not called; 200 is answered only
\* after validation passed and runAgent resolved.
IsMissing(value) ==
    value.t = "undefined" \/ (value.t \in {"string", "array"} /\ value.chars = <<>>)

IsBlank(value) == value.t = "string" /\ \A i \in DOMAIN value.chars : value.chars[i] = " "

FirstFailingCheck(body) ==
    IF IsMissing(body.idea) \/ IsBlank(body.idea) THEN ErrIdea
    ELSE IF IsMissing(body.tone) THEN ErrTone
    ELSE IF IsMissing(body.targetAudience) THEN ErrAudience
    ELSE IF IsMissing(body.lengthSeconds) \/ body.lengthSeconds = Num(0) THEN ErrLength
    ELSE IF IsMissing(body.platforms) THEN ErrPlatforms
    ELSE Null

Answered == response # NoResponse

C26_InvalidRequestRejected ==
    /\ (Answered /\ request.kind = "object" /\ FirstFailingCheck(request.body) # Null) =>
          /\ response = [status |-> 400, error |-> FirstFailingCheck(request.body)]
          /\ agentCalls = <<>>
    /\ (Answered /\ response.status = 200) =>
          /\ request.kind = "object"
          /\ validate(request.body) = Null
          /\ Len(agentCalls) = 1

\* C26 for the bodies that are JSON objects whose idea is a string or absent.
C26_WellTypedRequestRejected ==
    /\ (/\ Answered
        /\ request.kind = "object"
        /\ request.body.idea.t \in {"undefined", "string"}
        /\ FirstFailingCheck(request.body) # Null) =>
          /\ response = [status |-> 400, error |-> FirstFailingCheck(request.body)]
          /\ agentCalls = <<>>
    /\ (Answered /\ response.status = 200) =>
          /\ request.kind = "object"
          /\ validate(request.body) = Null
          /\ Len(agentCalls) = 1
    /\ (Answered /\ response.status \notin {200, 400}) =>
          response = [status |-> 500, error |-> ErrOrchestrate]

C26_MissingToneAnswered400 ==
    /\ Answered
    /\ request.kind = "object"
    /\ request.body.idea = Str(<<"a">>)
    /\ request.body.tone = Undefined
    /\ response = [status |-> 400, error |-> ErrTone]

\* C27: publishing a scheduled post puts exactly one new entry at the head of
\* the published list and keeps the earlier entries in order, removes from
\* the scheduled list the posts of that platform and no others, and leaves
\* the stored item equal to the published list; mounting the planner brings
\* back the stored list and leaves it stored.
PublishStep == plannerMounted /\ plannerMounted' /\ published' # published

MountStep == ~plannerMounted /\ plannerMounted'

C27_PublishPrependsAndPersists ==
    /\ [][PublishStep =>
            /\ Len(published') = Len(published) + 1
            /\ Tail(published') = published
            /\ \E i \in DOMAIN scheduled :
                  /\ Head(published').platform = scheduled[i].platform
                  /\ Head(published').caption = scheduled[i].caption
            /\ scheduled' =
                 SelectSeq(scheduled, LAMBDA item : item.platform # Head(published').platform)
            /\ storage'.kind = "json"
            /\ parse(storage'.text) = published']_vars
    /\ [][MountStep =>
            /\ storage.kind = "json" => published' = parse(storage.text)
            /\ storage'.kind = "json"
            /\ parse(storage'.text) = published'
            /\ storage.kind = "json" => storage' = storage]_vars

C27_Witness ==
    /\ plannerMounted
    /\ Len(published) = 3
    /\ published[1].platform # published[2].platform
    /\ published[2].caption # published[3].caption
    /\ Len(scheduled) = 1
    /\ storage = Item(stringify(published))

====
